---------------------------- MODULE Spec2Model ----------------------------
(***************************************************************************)
(* A model of amazon_product_lookup/api.py: AmazonAPI.lookup (validation,  *)
(* canonical query, signature, transport, response normalisation) and the  *)
(* typed item model (AmazonItem, ItemAttributes, OfferSummary, Offers,     *)
(* Links).                                                                 *)
(*                                                                         *)
(* Python values are tagged tuples:                                        *)
(*   <<"none">>  <<"str", s>>  <<"int", n>>  <<"bool", b>>                 *)
(*   <<"tuple", seq>>  <<"list", seq>>                                     *)
(*   <<"dict", keys, f>>   a plain dict: keys in insertion order, and the  *)
(*                         mapping f from key to value                     *)
(*   <<"odict", keys, f>>  a collections.OrderedDict (what xmltodict       *)
(*                         builds for an element with children)            *)
(*   <<"obj", fields>>     an instance of one of the module's classes      *)
(*   <<"exc", class, message>>   an exception instance                     *)
(* and <<"raise", class, message>> stands for an exception propagating out *)
(* of an expression.  Strings are TLA+ strings over printable ASCII.       *)
(***************************************************************************)
EXTENDS Integers, Sequences, FiniteSets, TLC

VARIABLES
    self,         \* the AmazonAPI instance's fields
    pc,           \* position of the one synchronous lookup call
    args,         \* the arguments of the call in progress
    timestamp,    \* the value time.strftime returned for this call
    query,        \* the query dict: parameter name -> value
    query_str,    \* the canonical query string (line 97)
    request_url,  \* endpoint + query string + Signature (line 109)
    response,     \* xmltodict.parse(...) of the body
    outcome,      \* how the call ended: <<"return", v>> or <<"raise", c, m>>
    encoded,      \* quote_plus has been executed in this call
    sent,         \* s.get has been executed in this call
    rec,          \* item model: the record an AmazonItem is built from
    item,         \* item model: the constructed AmazonItem, or the raise
    accessor,     \* item model: the property read last
    result        \* item model: what reading it gave

vars == <<self, pc, args, timestamp, query, query_str, request_url, response,
          outcome, encoded, sent, rec, item, accessor, result>>

lookupVars == <<self, pc, args, timestamp, query, query_str, request_url,
                response, outcome, encoded, sent>>

itemVars == <<rec, item, accessor, result>>

(***************************************************************************)
(* Bounds of the model.                                                    *)
(***************************************************************************)
\* item_id tuples of 0..MaxIds identifiers are tried
MaxIds == 11
\* the items node, as a list, holds 2..MaxRespItems records
MaxRespItems == 3
\* the Error node, as a list, holds 2..MaxErrors records
MaxErrors == 3
\* bytes of the stand-in for the SHA-256 digest
DigestLen == 5

(***************************************************************************)
(* Characters: ord and chr over printable ASCII (the backquote, 96, is not *)
(* in the alphabet; the newline of the string to sign, 10, is).            *)
(***************************************************************************)
AsciiLow == " !\"#$%&'()*+,-./0123456789:;<=>?@ABCDEFGHIJKLMNOPQRSTUVWXYZ[\\]^_"

AsciiHigh == "abcdefghijklmnopqrstuvwxyz{|}~"

CharAt(s, i) == SubSeq(s, i, i)

ord(c) ==
    IF c = "\n" THEN 10
    ELSE IF \E i \in 1..Len(AsciiLow) : CharAt(AsciiLow, i) = c
    THEN 31 + (CHOOSE i \in 1..Len(AsciiLow) : CharAt(AsciiLow, i) = c)
    ELSE 96 + (CHOOSE i \in 1..Len(AsciiHigh) : CharAt(AsciiHigh, i) = c)

chr(n) ==
    IF n = 10 THEN "\n"
    ELSE IF n < 96 THEN CharAt(AsciiLow, n - 31) ELSE CharAt(AsciiHigh, n - 96)

\* str < str in Python: by code point, a proper prefix first
RECURSIVE StrLess(_, _)
StrLess(a, b) ==
    IF Len(b) = 0 THEN FALSE
    ELSE IF Len(a) = 0 THEN TRUE
    ELSE IF CharAt(a, 1) = CharAt(b, 1) THEN StrLess(Tail(a), Tail(b))
    ELSE ord(CharAt(a, 1)) < ord(CharAt(b, 1))

\* sep.join(seq)
RECURSIVE Join(_, _)
Join(sep, seq) ==
    IF Len(seq) = 0 THEN ""
    ELSE IF Len(seq) = 1 THEN seq[1]
    ELSE seq[1] \o sep \o Join(sep, Tail(seq))

\* whether needle occurs in hay (Python's "needle in hay")
Contains(hay, needle) ==
    \E i \in 1..(Len(hay) - Len(needle) + 1) :
        SubSeq(hay, i, i + Len(needle) - 1) = needle

(***************************************************************************)
(* urllib.parse.quote_plus                                                 *)
(***************************************************************************)
HexDigit(n) == IF n < 10 THEN chr(48 + n) ELSE chr(55 + n)

IsAlwaysSafe(c) ==
    LET n == ord(c) IN
    \/ n \in 48..57
    \/ n \in 65..90
    \/ n \in 97..122
    \/ c \in {"_", ".", "-", "~"}

QuoteChar(c) ==
    IF c = " " THEN "+"
    ELSE IF IsAlwaysSafe(c) THEN c
    ELSE "%" \o HexDigit(ord(c) \div 16) \o HexDigit(ord(c) % 16)

RECURSIVE quote_plus(_)
quote_plus(s) ==
    IF Len(s) = 0 THEN "" ELSE QuoteChar(CharAt(s, 1)) \o quote_plus(Tail(s))

(***************************************************************************)
(* base64.b64encode over a sequence of bytes                               *)
(***************************************************************************)
B64Alphabet == "ABCDEFGHIJKLMNOPQRSTUVWXYZabcdefghijklmnopqrstuvwxyz0123456789+/"

B64Char(n) == CharAt(B64Alphabet, n + 1)

RECURSIVE b64encode(_)
b64encode(bytes) ==
    IF Len(bytes) = 0 THEN ""
    ELSE IF Len(bytes) = 1 THEN
        B64Char(bytes[1] \div 4) \o B64Char((bytes[1] % 4) * 16) \o "=="
    ELSE IF Len(bytes) = 2 THEN
        B64Char(bytes[1] \div 4)
        \o B64Char((bytes[1] % 4) * 16 + bytes[2] \div 16)
        \o B64Char((bytes[2] % 16) * 4) \o "="
    ELSE
        B64Char(bytes[1] \div 4)
        \o B64Char((bytes[1] % 4) * 16 + bytes[2] \div 16)
        \o B64Char((bytes[2] % 16) * 4 + bytes[3] \div 64)
        \o B64Char(bytes[3] % 64)
        \o b64encode(SubSeq(bytes, 4, Len(bytes)))

(***************************************************************************)
(* hmac.new(key, data, sha256).digest().  SHA-256 itself is not modelled:  *)
(* the digest is a fixed function of the latin-1 bytes of key and data,    *)
(* here DigestLen bytes mixed from both.                                   *)
(***************************************************************************)
\* the sum of ord(s[i]) * i over lo..hi, mod 65521
RECURSIVE Mix(_, _, _)
Mix(s, lo, hi) ==
    IF lo > hi THEN 0
    ELSE IF lo = hi THEN (ord(CharAt(s, lo)) * lo) % 65521
    ELSE LET mid == (lo + hi) \div 2 IN
         (Mix(s, lo, mid) + Mix(s, mid + 1, hi)) % 65521

hmac_digest(key, data) ==
    LET h == (Mix(key, 1, Len(key)) * 31 + Mix(data, 1, Len(data))) % 65521 IN
    [i \in 1..DigestLen |-> (h * i + i * i * 17) % 256]

(***************************************************************************)
(* Python values and the operations the code applies to them.              *)
(***************************************************************************)
PyNone == <<"none">>

PyStr(s) == <<"str", s>>

PyInt(n) == <<"int", n>>

PyBool(b) == <<"bool", b>>

PyList(seq) == <<"list", seq>>

PyTuple(seq) == <<"tuple", seq>>

\* a key left out of a dict literal below
Absent == <<"absent">>

\* the literal {}
EmptyDict == <<"dict", <<>>, <<>>>>

\* an OrderedDict from <<key, value>> pairs, in order; Absent values are left out
OD(pairs) ==
    LET kept == SelectSeq(pairs, LAMBDA p : p[2][1] # "absent") IN
    <<"odict",
      [i \in 1..Len(kept) |-> kept[i][1]],
      [k \in {kept[i][1] : i \in 1..Len(kept)} |->
          kept[CHOOSE i \in 1..Len(kept) : kept[i][1] = k][2]]>>

Raise(class, msg) == <<"raise", class, msg>>

IsRaise(v) == v[1] = "raise"

\* isinstance(v, dict): OrderedDict is a subclass of dict
IsDict(v) == v[1] \in {"dict", "odict"}

\* isinstance(v, collections.OrderedDict)
IsOrderedDict(v) == v[1] = "odict"

IsList(v) == v[1] = "list"

IsTuple(v) == v[1] = "tuple"

IsStr(v) == v[1] = "str"

\* a == b for the values compared in the code
PyEq(a, b) == a[1] = b[1] /\ a = b

\* d.get(k, default): only a dict has .get
Get(d, k, default) ==
    IF IsRaise(d) THEN d
    ELSE IF IsDict(d) THEN (IF k \in DOMAIN d[3] THEN d[3][k] ELSE default)
    ELSE Raise("AttributeError", "get")

\* d[k] for a str key k
Subscript(d, k) ==
    IF IsRaise(d) THEN d
    ELSE IF IsDict(d) THEN (IF k \in DOMAIN d[3] THEN d[3][k] ELSE Raise("KeyError", k))
    ELSE Raise("TypeError", "subscript")

\* the sequence "for x in v" runs over
Iterate(v) ==
    IF IsRaise(v) THEN v
    ELSE IF IsDict(v) THEN PyList([i \in 1..Len(v[2]) |-> PyStr(v[2][i])])
    ELSE IF IsList(v) \/ IsTuple(v) THEN PyList(v[2])
    ELSE IF IsStr(v) THEN PyList([i \in 1..Len(v[2]) |-> PyStr(CharAt(v[2], i))])
    ELSE Raise("TypeError", "not iterable")

IsDigit(c) == c \in {"0", "1", "2", "3", "4", "5", "6", "7", "8", "9"}

RECURSIVE DigitsValue(_, _)
DigitsValue(s, acc) ==
    IF Len(s) = 0 THEN acc
    ELSE DigitsValue(Tail(s), 10 * acc + (ord(CharAt(s, 1)) - 48))

\* int(s) for a str s of decimal digits; anything else is a ValueError
int(s) ==
    IF Len(s) > 0 /\ \A i \in 1..Len(s) : IsDigit(CharAt(s, i))
    THEN PyInt(DigitsValue(s, 0))
    ELSE Raise("ValueError", s)

\* int(v) if isinstance(v, str) else None
IntIfStr(v) ==
    IF IsRaise(v) THEN v
    ELSE IF IsStr(v) THEN int(v[2])
    ELSE PyNone

\* True if v == '1' else False
IsOne(v) ==
    IF IsRaise(v) THEN v ELSE PyBool(PyEq(v, PyStr("1")))

\* the first exception raised by statements evaluated in order, if any
FirstRaise(vals) ==
    IF \E i \in 1..Len(vals) : IsRaise(vals[i])
    THEN vals[CHOOSE i \in 1..Len(vals) :
                 IsRaise(vals[i]) /\ \A j \in 1..(i - 1) : ~IsRaise(vals[j])]
    ELSE PyNone

\* an object with the given fields, unless one of the statements raised
Construct(vals, fields) ==
    IF IsRaise(FirstRaise(vals)) THEN FirstRaise(vals) ELSE <<"obj", fields>>

(***************************************************************************)
(* class Links                                                             *)
(***************************************************************************)
\* next(x['URL'] for x in xs if x['Description'] == target), with the
\* StopIteration handler giving None
RECURSIVE NextLinkURL(_, _)
NextLinkURL(xs, target) ==
    IF Len(xs) = 0 THEN PyNone
    ELSE LET d == Subscript(xs[1], "Description") IN
         IF IsRaise(d) THEN d
         ELSE IF PyEq(d, PyStr(target)) THEN Subscript(xs[1], "URL")
         ELSE NextLinkURL(Tail(xs), target)

FindLink(item_links, target) ==
    LET xs == Iterate(item_links) IN
    IF IsRaise(xs) THEN xs ELSE NextLinkURL(xs[2], target)

Links(item_links) ==
    LET _item_links == Get(item_links, "ItemLink", EmptyDict)
        description_url == FindLink(_item_links, "Technical Details")
        all_offers_url == FindLink(_item_links, "All Offers")
    IN  Construct(<<_item_links, description_url, all_offers_url>>,
                  [description_url |-> description_url,
                   all_offers_url |-> all_offers_url])

(***************************************************************************)
(* class Offers                                                            *)
(***************************************************************************)
Offers(offers) ==
    LET total_offers == Get(offers, "TotalOffers", PyNone)
        more == Get(offers, "MoreOffersUrl", PyNone)
        more_offers_url ==
            IF IsRaise(more) THEN more
            ELSE IF ~PyEq(more, PyStr("0")) THEN more ELSE PyNone
        listing == Get(Get(offers, "Offer", EmptyDict), "OfferListing", EmptyDict)
        condition ==
            Get(Get(Get(offers, "Offer", EmptyDict), "OfferAttributes", EmptyDict),
                "Condition", PyNone)
        buy_box_price ==
            IntIfStr(Get(Get(listing, "Price", EmptyDict), "Amount", PyNone))
        super_saver_shipping ==
            IsOne(Get(listing, "IsEligibleForSuperSaverShipping", PyNone))
        prime_shipping == IsOne(Get(listing, "IsEligibleForPrime", PyNone))
    IN  Construct(<<total_offers, more_offers_url, condition, buy_box_price,
                    super_saver_shipping, prime_shipping>>,
                  [total_offers |-> total_offers,
                   more_offers_url |-> more_offers_url,
                   condition |-> condition,
                   buy_box_price |-> buy_box_price,
                   super_saver_shipping |-> super_saver_shipping,
                   prime_shipping |-> prime_shipping])

(***************************************************************************)
(* class OfferSummary                                                      *)
(***************************************************************************)
OfferSummary(offer_summary) ==
    LET Amount(k) == Get(Get(offer_summary, k, EmptyDict), "Amount", PyNone)
        lowest_new_price == IntIfStr(Amount("LowestNewPrice"))
        lowest_used_price == Amount("LowestUsedPrice")
        lowest_collectible_price == Amount("LowestCollectiblePrice")
        lowest_refurbished_price == Amount("LowestRefurbishedPrice")
        new_offers == Get(offer_summary, "TotalNew", PyNone)
        used_offers == Get(offer_summary, "TotalUsed", PyNone)
        collectible_offers == Get(offer_summary, "TotalCollectible", PyNone)
        refurbished_offers == Get(offer_summary, "TotalRefurbished", PyNone)
    IN  Construct(<<lowest_new_price, lowest_used_price, lowest_collectible_price,
                    lowest_refurbished_price, new_offers, used_offers,
                    collectible_offers, refurbished_offers>>,
                  [lowest_new_price |-> lowest_new_price,
                   lowest_used_price |-> lowest_used_price,
                   lowest_collectible_price |-> lowest_collectible_price,
                   lowest_refurbished_price |-> lowest_refurbished_price,
                   new_offers |-> new_offers,
                   used_offers |-> used_offers,
                   collectible_offers |-> collectible_offers,
                   refurbished_offers |-> refurbished_offers])

(***************************************************************************)
(* class ItemAttributes                                                    *)
(***************************************************************************)
\* line 353: the Amount as stored, with no int()
ListPriceOf(item_attributes) ==
    Get(Get(item_attributes, "ListPrice", EmptyDict), "Amount", PyNone)

ItemAttributes(item_attributes) ==
    LET binding == Get(item_attributes, "Binding", PyNone)
        brand == Get(item_attributes, "Brand", PyNone)
        ean == Get(item_attributes, "EAN", PyNone)
        dimensions == Get(item_attributes, "ItemDimensions", PyNone)
        label == Get(item_attributes, "Label", PyNone)
        list_price == ListPriceOf(item_attributes)
        model == Get(item_attributes, "Model", PyNone)
        title == Get(item_attributes, "Title", PyNone)
        platform == Get(item_attributes, "Platform", PyNone)
        upc == Get(item_attributes, "UPC", PyNone)
        upc_list ==
            Get(Get(item_attributes, "UPCList", EmptyDict), "UPCListElement", PyNone)
    IN  Construct(<<binding, brand, ean, dimensions, label, list_price, model,
                    title, platform, upc, upc_list>>,
                  [binding |-> binding, brand |-> brand, ean |-> ean,
                   dimensions |-> dimensions, label |-> label,
                   list_price |-> list_price, model |-> model, title |-> title,
                   platform |-> platform, upc |-> upc, upc_list |-> upc_list])

(***************************************************************************)
(* class AmazonItem                                                        *)
(***************************************************************************)
AmazonItem(resp) ==
    LET item_attributes == ItemAttributes(Get(resp, "ItemAttributes", EmptyDict))
        offer_summary == OfferSummary(Get(resp, "OfferSummary", EmptyDict))
        offers == Offers(Get(resp, "Offers", EmptyDict))
        item_links == Links(Get(resp, "ItemLinks", EmptyDict))
    IN  Construct(<<item_attributes, offer_summary, offers, item_links>>,
                  [_response |-> resp,
                   item_attributes |-> item_attributes,
                   offer_summary |-> offer_summary,
                   offers |-> offers,
                   item_links |-> item_links])

\* the properties that read self._response
ResponseProperties ==
    {"asin", "parent_asin", "url", "sales_rank", "small_image_url",
     "medium_image_url", "large_image_url", "similar_items", "accessories"}

ItemAttributesProperties ==
    {"binding", "brand", "ean", "dimensions", "label", "list_price", "model",
     "title", "platform", "upc", "upc_list"}

OfferSummaryProperties ==
    {"lowest_new_price", "lowest_used_price", "lowest_collectible_price",
     "lowest_refurbished_price", "new_offers", "used_offers",
     "collectible_offers", "refurbished_offers"}

OffersProperties ==
    {"total_offers", "more_offers_url", "condition", "buy_box_price",
     "super_saver_shipping", "prime_shipping"}

LinksProperties == {"description_url", "all_offers_url"}

Properties ==
    ResponseProperties \cup ItemAttributesProperties \cup OfferSummaryProperties
        \cup OffersProperties \cup LinksProperties

\* reading property name of a constructed AmazonItem
ReadProperty(obj, name) ==
    LET o == obj[2]
        r == o._response
    IN  CASE name = "asin" -> Get(r, "ASIN", PyNone)
          [] name = "parent_asin" -> Get(r, "ParentASIN", PyNone)
          [] name = "url" -> Get(r, "DetailPageURL", PyNone)
          [] name = "sales_rank" -> Get(r, "SalesRank", PyNone)
          [] name = "small_image_url" ->
                Get(Get(r, "SmallImage", EmptyDict), "URL", PyNone)
          [] name = "medium_image_url" ->
                Get(Get(r, "MediumImage", EmptyDict), "URL", PyNone)
          [] name = "large_image_url" ->
                Get(Get(r, "LargeImage", EmptyDict), "URL", PyNone)
          [] name = "similar_items" ->
                Get(Get(r, "SimilarProducts", EmptyDict), "SimilarProduct", PyNone)
          [] name = "accessories" ->
                Get(Get(r, "Accessories", EmptyDict), "Accessory", PyNone)
          [] name \in ItemAttributesProperties -> o.item_attributes[2][name]
          [] name \in OfferSummaryProperties -> o.offer_summary[2][name]
          [] name \in OffersProperties -> o.offers[2][name]
          [] name \in LinksProperties -> o.item_links[2][name]

(***************************************************************************)
(* Item records, as xmltodict builds them: an element with children is an  *)
(* OrderedDict, a repeated element a list, a text element a str, and an    *)
(* empty element (<Offers/>) None.                                         *)
(***************************************************************************)
Price(amount) ==
    OD(<< <<"Amount", PyStr(amount)>>, <<"CurrencyCode", PyStr("USD")>> >>)

Link(description, url) ==
    OD(<< <<"Description", PyStr(description)>>, <<"URL", PyStr(url)>> >>)

Offer(amount, prime) ==
    OD(<< <<"OfferAttributes", OD(<< <<"Condition", PyStr("New")>> >>)>>,
          <<"OfferListing",
            OD(<< <<"Price", Price(amount)>>,
                  <<"IsEligibleForSuperSaverShipping", PyStr("0")>>,
                  <<"IsEligibleForPrime", PyStr(prime)>> >>)>> >>)

ItemAttributesPool ==
    { Absent,
      PyNone,
      OD(<< <<"Title", PyStr("T")>> >>),
      OD(<< <<"ListPrice", Price("1999")>>, <<"Title", PyStr("T")>> >>),
      OD(<< <<"ListPrice", PyNone>> >>),
      OD(<< <<"ListPrice", OD(<< <<"CurrencyCode", PyStr("USD")>> >>)>> >>) }

OfferSummaryPool ==
    { Absent,
      PyNone,
      OD(<< <<"LowestNewPrice", Price("1500")>>,
            <<"LowestUsedPrice", Price("900")>>,
            <<"TotalNew", PyStr("3")>>, <<"TotalUsed", PyStr("1")>> >>),
      OD(<< <<"TotalNew", PyStr("0")>> >>),
      OD(<< <<"LowestNewPrice", PyNone>> >>) }

OffersPool ==
    { Absent,
      PyNone,
      OD(<< <<"TotalOffers", PyStr("0")>>, <<"MoreOffersUrl", PyStr("0")>> >>),
      OD(<< <<"TotalOffers", PyStr("1")>>, <<"MoreOffersUrl", PyStr("http://m")>>,
            <<"Offer", Offer("1799", "1")>> >>),
      OD(<< <<"Offer", PyNone>> >>),
      OD(<< <<"Offer",
              OD(<< <<"OfferListing",
                      OD(<< <<"Price", OD(<< <<"CurrencyCode", PyStr("USD")>> >>)>>,
                            <<"IsEligibleForPrime", PyStr("0")>> >>)>> >>)>> >>),
      OD(<< <<"Offer", PyList(<<Offer("1799", "1"), Offer("1899", "0")>>)>> >>) }

ItemLinksPool ==
    { Absent,
      PyNone,
      OD(<< <<"ItemLink", PyNone>> >>),
      OD(<< <<"ItemLink", Link("All Offers", "http://x")>> >>),
      OD(<< <<"ItemLink", PyList(<<Link("Technical Details", "http://t"),
                                   Link("All Offers", "http://x")>>)>> >>),
      OD(<< <<"ItemLink", PyList(<<Link("Add To Wishlist", "http://w"),
                                   Link("All Offers", "http://x"),
                                   Link("All Offers", "http://y")>>)>> >>),
      OD(<< <<"ItemLink", PyList(<<Link("Add To Wishlist", "http://w"),
                                   Link("Tell A Friend", "http://f")>>)>> >>) }

ImagePool == { Absent, PyNone, OD(<< <<"URL", PyStr("http://s")>> >>) }

ItemRecord(ia, os, of, il, img) ==
    OD(<< <<"ASIN", PyStr("B00X")>>,
          <<"SmallImage", img>>,
          <<"ItemLinks", il>>,
          <<"ItemAttributes", ia>>,
          <<"OfferSummary", os>>,
          <<"Offers", of>> >>)

ItemRecords ==
    { ItemRecord(ia, os, of, il, img) :
        ia \in ItemAttributesPool, os \in OfferSummaryPool, of \in OffersPool,
        il \in ItemLinksPool, img \in ImagePool }

(***************************************************************************)
(* The item model on its own: build an AmazonItem from a record, then read *)
(* one of its properties.                                                  *)
(***************************************************************************)
IdleLookup ==
    /\ self = [access_key |-> "AKIDEXAMPLE", secret_access_key |-> "s3cr3t/Key+",
               associate_id |-> "tag-20",
               endpoint |-> "http://webservices.amazon.com/onca/xml?"]
    /\ pc = "idle"
    /\ args = PyNone
    /\ timestamp = ""
    /\ query = <<>>
    /\ query_str = ""
    /\ request_url = ""
    /\ response = PyNone
    /\ outcome = PyNone
    /\ encoded = FALSE
    /\ sent = FALSE

InitItem ==
    /\ IdleLookup
    /\ rec \in ItemRecords
    /\ item = PyNone
    /\ accessor = ""
    /\ result = PyNone

ConstructItem ==
    /\ item = PyNone
    /\ item' = AmazonItem(rec)
    /\ UNCHANGED <<rec, accessor, result>>
    /\ UNCHANGED lookupVars

ReadItem ==
    /\ item[1] = "obj"
    /\ accessor = ""
    /\ \E name \in Properties :
        /\ accessor' = name
        /\ result' = ReadProperty(item, name)
    /\ UNCHANGED <<rec, item>>
    /\ UNCHANGED lookupVars

NextItem == ConstructItem \/ ReadItem

SpecItem == InitItem /\ [][NextItem]_vars

(***************************************************************************)
(* json.dumps(v, indent=2) and str.format, for the values of the error     *)
(* branch.                                                                 *)
(***************************************************************************)
RECURSIVE JsonEscape(_)
JsonEscape(s) ==
    IF Len(s) = 0 THEN ""
    ELSE LET c == CharAt(s, 1) IN
         (IF c = "\"" THEN "\\\""
          ELSE IF c = "\\" THEN "\\\\"
          ELSE IF c = "\n" THEN "\\n"
          ELSE c) \o JsonEscape(Tail(s))

RECURSIVE Spaces(_)
Spaces(n) == IF n = 0 THEN "" ELSE " " \o Spaces(n - 1)

RECURSIVE json_dumps(_, _)
json_dumps(v, level) ==
    LET inner == Spaces(2 * (level + 1))
        close == "\n" \o Spaces(2 * level)
    IN  IF IsStr(v) THEN "\"" \o JsonEscape(v[2]) \o "\""
        ELSE IF IsList(v) THEN
            IF Len(v[2]) = 0 THEN "[]"
            ELSE "[\n"
                 \o Join(",\n", [i \in 1..Len(v[2]) |->
                                    inner \o json_dumps(v[2][i], level + 1)])
                 \o close \o "]"
        ELSE IF IsDict(v) THEN
            IF Len(v[2]) = 0 THEN "{}"
            ELSE "{\n"
                 \o Join(",\n", [i \in 1..Len(v[2]) |->
                                    inner \o "\"" \o JsonEscape(v[2][i]) \o "\": "
                                    \o json_dumps(v[3][v[2][i]], level + 1)])
                 \o close \o "}"
        ELSE "null"

\* '{0}'.format(v)
Format(v) == IF IsStr(v) THEN v[2] ELSE "None"

(***************************************************************************)
(* AmazonAPI.lookup, lines 62-67: the checks of the initial setup.         *)
(* The result is the way the call ends there, or PyNone to go on.          *)
(***************************************************************************)
\* line 66
MaxLookupItems == 10

TooManyItems(item_id) == Len(item_id[2]) > MaxLookupItems

SetupCheck(a) ==
    IF ~IsTuple(a.item_id)
    THEN Raise("APICallError", "item_id must be of type \"tuple\"")
    ELSE IF ~IsTuple(a.response_group)
    THEN Raise("APICallError", "response_group must be of type \"tuple\"")
    ELSE IF TooManyItems(a.item_id)
    THEN <<"return", <<"exc", "APICallError",
                       "API item lookups must contain 1-10 items.">>>>
    ELSE PyNone

(***************************************************************************)
(* lines 69-97: the query dict and the canonical query string              *)
(***************************************************************************)
\* str(b) for a bool
StrOfBool(b) == IF b THEN "True" ELSE "False"

\* a variant of line 85 that leaves the parameter out only for 'All'
MerchantIncludedUnlessAll(merchant_id) == merchant_id # "All"

\* line 85
MerchantIncluded(merchant_id) == merchant_id = "Amazon"

\* lines 72-86: the <<name, value>> pairs in insertion order
QueryPairs(s, a, ts) ==
    LET base ==
            << <<"Service", "AWSECommerceService">>,
               <<"AWSAccessKeyId", s.access_key>>,
               <<"Operation", "ItemLookup">>,
               <<"ItemId", Join(",", a.item_id[2])>>,
               <<"ResponseGroup", Join(",", a.response_group[2])>>,
               <<"Version", "2013-08-01">>,
               <<"Timestamp", ts>>,
               <<"AssociateTag", s.associate_id>>,
               <<"Condition", a.condition>>,
               <<"IncludeReviewsSummary", StrOfBool(a.include_reviews_summary)>>,
               <<"IdType", a.id_type>> >>
    IN  IF MerchantIncluded(a.merchant_id)
        THEN Append(base, <<"MerchantId", a.merchant_id>>)
        ELSE base

\* lines 89-90
EncodeValues(pairs) ==
    [i \in 1..Len(pairs) |-> <<pairs[i][1], quote_plus(pairs[i][2])>>]

\* the dict the pairs make: keys in insertion order, and the mapping
DictOf(pairs) ==
    [keys |-> [i \in 1..Len(pairs) |-> pairs[i][1]],
     val |-> [k \in {pairs[i][1] : i \in 1..Len(pairs)} |->
                 pairs[CHOOSE i \in 1..Len(pairs) : pairs[i][1] = k][2]]]

RECURSIVE InsertSorted(_, _)
InsertSorted(x, ys) ==
    IF Len(ys) = 0 THEN <<x>>
    ELSE IF StrLess(x, ys[1]) THEN <<x>> \o ys
    ELSE <<ys[1]>> \o InsertSorted(x, Tail(ys))

\* a variant of line 95 that takes the keys in the dict's own order
sorted_as_inserted(xs) == xs

\* sorted(xs) for a sequence of str
RECURSIVE sorted(_)
sorted(xs) ==
    IF Len(xs) = 0 THEN <<>> ELSE InsertSorted(xs[1], sorted(Tail(xs)))

\* lines 94-96: '&' + key + '=' + value for each key in order
RECURSIVE AppendPairs(_, _)
AppendPairs(keys, val) ==
    IF Len(keys) = 0 THEN ""
    ELSE "&" \o keys[1] \o "=" \o val[keys[1]] \o AppendPairs(Tail(keys), val)

\* lines 94-97
QueryString(q) ==
    LET s == AppendPairs(sorted(q.keys), q.val) IN SubSeq(s, 2, Len(s))

(***************************************************************************)
(* lines 100-109: the signature and the request URL                        *)
(***************************************************************************)
Signature(secret, qs) ==
    LET data == "GET\nwebservices.amazon.com\n/onca/xml\n" \o qs
        dig == hmac_digest(secret, data)
    IN  quote_plus(b64encode(dig))

SignedQuery(secret, qs) == qs \o "&Signature=" \o Signature(secret, qs)

(***************************************************************************)
(* lines 119-139: the response                                             *)
(***************************************************************************)
\* a variant of lines 124-129 that reports the code of a single record only
ErrorRaisedCodeOnly(codes) ==
    IF IsDict(codes) THEN
        LET code == Subscript(codes, "Code") IN
        IF IsRaise(code) THEN code
        ELSE Raise("APIReturnError", "API Lookup Error " \o Format(code))
    ELSE Raise("APIReturnError", json_dumps(codes, 0))

\* lines 124-129
ErrorRaised(codes) ==
    IF IsDict(codes) THEN
        LET code == Subscript(codes, "Code")
            message == Subscript(codes, "Message")
        IN  IF IsRaise(code) THEN code
            ELSE IF IsRaise(message) THEN message
            ELSE Raise("APIReturnError",
                       "API Lookup Error " \o Format(code) \o " - " \o Format(message))
    ELSE Raise("APIReturnError", json_dumps(codes, 0))

\* a list of the items built, unless building one raised
ReturnItems(items) ==
    IF IsRaise(FirstRaise(items)) THEN FirstRaise(items)
    ELSE <<"return", PyList(items)>>

\* lines 134-139
ItemsOf(products) ==
    IF IsOrderedDict(products) THEN ReturnItems(<<AmazonItem(products)>>)
    ELSE IF IsList(products) THEN
        ReturnItems([i \in 1..Len(products[2]) |-> AmazonItem(products[2][i])])
    ELSE Raise("APIReturnError", "Unknown response type")

\* lines 120-139
Normalize(resp) ==
    LET items == Subscript(Subscript(resp, "ItemLookupResponse"), "Items")
        request == Subscript(items, "Request")
        valid == Subscript(request, "IsValid")
    IN  IF IsRaise(valid) THEN valid
        ELSE IF PyEq(valid, PyStr("False")) THEN
            LET codes == Subscript(Subscript(request, "Errors"), "Error") IN
            IF IsRaise(codes) THEN codes ELSE ErrorRaised(codes)
        ELSE LET products == Subscript(items, "Item") IN
             IF IsRaise(products) THEN products ELSE ItemsOf(products)

(***************************************************************************)
(* The calls tried and the responses the service may give.                 *)
(***************************************************************************)
IdPool == <<"B00A", "B00B", "0439">>

\* n elements, taken in turn from the pool starting after the k-th
Rotate(pool, n, k) == [i \in 1..n |-> pool[((i + k - 1) % Len(pool)) + 1]]

ItemIdArgs ==
    { PyTuple(Rotate(IdPool, n, 0)) : n \in 0..MaxIds }
        \cup { PyList(<<"B00A">>), PyStr("B00A") }

ResponseGroupArgs ==
    { PyTuple(<<"Large">>), PyTuple(<<"Offers", "ItemAttributes">>),
      PyList(<<"Large">>) }

MerchantArgs == {"All", "Amazon", "amazon", ""}

\* id_type, condition, include_reviews_summary
OtherArgs == { <<"ASIN", "New", TRUE>>, <<"UPC", "All", FALSE>> }

Timestamps == {"2016-01-01T00:00:00Z", "2016-12-31T23:59:59Z"}

\* item records: three that build, one with a single ItemLink, one with an
\* empty Offers element
LookupRecords ==
    << ItemRecord(OD(<< <<"ListPrice", Price("1999")>>, <<"Title", PyStr("T")>> >>),
                  OD(<< <<"LowestNewPrice", Price("1500")>> >>),
                  OD(<< <<"TotalOffers", PyStr("1")>>,
                        <<"Offer", Offer("1799", "1")>> >>),
                  OD(<< <<"ItemLink",
                          PyList(<<Link("Technical Details", "http://t"),
                                   Link("All Offers", "http://x")>>)>> >>),
                  OD(<< <<"URL", PyStr("http://s")>> >>)),
       ItemRecord(Absent, Absent, Absent, Absent, Absent),
       ItemRecord(OD(<< <<"Title", PyStr("U")>> >>), Absent,
                  OD(<< <<"TotalOffers", PyStr("0")>>,
                        <<"MoreOffersUrl", PyStr("0")>> >>),
                  Absent, Absent),
       ItemRecord(Absent, Absent, Absent,
                  OD(<< <<"ItemLink", Link("All Offers", "http://x")>> >>), Absent),
       ItemRecord(Absent, Absent, PyNone, Absent, Absent) >>

\* what may stand at the items path
ItemNodes ==
    { LookupRecords[i] : i \in 1..Len(LookupRecords) }
        \cup { PyList(Rotate(LookupRecords, n, k)) :
                 n \in 2..MaxRespItems, k \in 0..(Len(LookupRecords) - 1) }
        \cup { PyStr("text"), PyNone, Absent }

ErrorRecord(code, message) ==
    OD(<< <<"Code", PyStr(code)>>, <<"Message", PyStr(message)>> >>)

ErrorPool ==
    << ErrorRecord("AWS.InvalidParameterValue", "foo"),
       ErrorRecord("AWS.MissingParameters", "missing \"ItemId\""),
       ErrorRecord("AWS.ECommerceService.ItemNotAccessible", "not accessible") >>

\* what may stand at the error path
ErrorNodes ==
    { ErrorPool[i] : i \in 1..Len(ErrorPool) }
        \cup { PyList(Rotate(ErrorPool, n, k)) :
                 n \in 2..MaxErrors, k \in 0..(Len(ErrorPool) - 1) }

ResponseTree(valid, error, items) ==
    OD(<< <<"ItemLookupResponse",
            OD(<< <<"OperationRequest", OD(<< <<"RequestId", PyStr("r-1")>> >>)>>,
                  <<"Items",
                    OD(<< <<"Request",
                            OD(<< <<"IsValid", PyStr(valid)>>,
                                  <<"Errors",
                                    IF error[1] = "absent" THEN Absent
                                    ELSE OD(<< <<"Error", error>> >>)>> >>)>>,
                          <<"Item", items>> >>)>> >>)>> >>)

\* the document sent with an HTTP error status (a rejected signature)
ErrorDocument ==
    OD(<< <<"ItemLookupErrorResponse",
            OD(<< <<"Error", ErrorRecord("SignatureDoesNotMatch", "rejected")>> >>)>> >>)

Responses ==
    { ResponseTree("True", Absent, items) : items \in ItemNodes }
        \cup { ResponseTree("True", ErrorPool[1], Absent) }
        \cup { ResponseTree("False", error, Absent) : error \in ErrorNodes }
        \cup { ErrorDocument }

(***************************************************************************)
(* AmazonAPI.lookup as the steps of one synchronous call.                  *)
(***************************************************************************)
Init ==
    /\ IdleLookup
    /\ rec = PyNone
    /\ item = PyNone
    /\ accessor = ""
    /\ result = PyNone

\* the caller invokes lookup
Call ==
    /\ pc = "idle"
    /\ \E item_id \in ItemIdArgs, response_group \in ResponseGroupArgs,
          merchant_id \in MerchantArgs, other \in OtherArgs :
        args' = [item_id |-> item_id, response_group |-> response_group,
                 id_type |-> other[1], condition |-> other[2],
                 include_reviews_summary |-> other[3],
                 merchant_id |-> merchant_id]
    /\ pc' = "validate"
    /\ UNCHANGED <<self, timestamp, query, query_str, request_url, response,
                   outcome, encoded, sent>>
    /\ UNCHANGED itemVars

\* lines 62-67
Validate ==
    /\ pc = "validate"
    /\ IF SetupCheck(args) = PyNone
       THEN /\ pc' = "build"
            /\ UNCHANGED outcome
       ELSE /\ pc' = "done"
            /\ outcome' = SetupCheck(args)
    /\ UNCHANGED <<self, args, timestamp, query, query_str, request_url,
                   response, encoded, sent>>
    /\ UNCHANGED itemVars

\* lines 69-97
BuildQuery ==
    /\ pc = "build"
    /\ \E ts \in Timestamps :
        /\ timestamp' = ts
        /\ query' = DictOf(EncodeValues(QueryPairs(self, args, ts)))
    /\ encoded' = TRUE
    /\ query_str' = QueryString(query')
    /\ pc' = "sign"
    /\ UNCHANGED <<self, args, request_url, response, outcome, sent>>
    /\ UNCHANGED itemVars

\* lines 99-109
Sign ==
    /\ pc = "sign"
    /\ query_str' = SignedQuery(self.secret_access_key, query_str)
    /\ request_url' = self.endpoint \o query_str'
    /\ pc' = "request"
    /\ UNCHANGED <<self, args, timestamp, query, response, outcome, encoded, sent>>
    /\ UNCHANGED itemVars

\* lines 112-117: the GET, and the body parsed; or the transport's exception
Request ==
    /\ pc = "request"
    /\ sent' = TRUE
    /\ \/ /\ \E r \in Responses : response' = r
          /\ pc' = "normalize"
          /\ UNCHANGED outcome
       \/ /\ outcome' = Raise("ConnectionError", request_url)
          /\ pc' = "done"
          /\ UNCHANGED response
    /\ UNCHANGED <<self, args, timestamp, query, query_str, request_url, encoded>>
    /\ UNCHANGED itemVars

\* lines 119-139
NormalizeResponse ==
    /\ pc = "normalize"
    /\ outcome' = Normalize(response)
    /\ pc' = "done"
    /\ UNCHANGED <<self, args, timestamp, query, query_str, request_url,
                   response, encoded, sent>>
    /\ UNCHANGED itemVars

\* the call is over; nothing of it is kept on the instance
ReturnToCaller ==
    /\ pc = "done"
    /\ pc' = "idle"
    /\ args' = PyNone
    /\ timestamp' = ""
    /\ query' = <<>>
    /\ query_str' = ""
    /\ request_url' = ""
    /\ response' = PyNone
    /\ outcome' = PyNone
    /\ encoded' = FALSE
    /\ sent' = FALSE
    /\ UNCHANGED self
    /\ UNCHANGED itemVars

Next ==
    \/ Call
    \/ Validate
    \/ BuildQuery
    \/ Sign
    \/ Request
    \/ NormalizeResponse
    \/ ReturnToCaller

Spec == Init /\ [][Next]_vars

(***************************************************************************)
(* Reading the state for the properties below.                             *)
(***************************************************************************)
\* the k-th smallest element of a set of numbers
Kth(S, k) == CHOOSE p \in S : Cardinality({q \in S : q < p}) = k - 1

\* s.split(c) for a one-character separator c
Split(s, c) ==
    LET cuts == {i \in 1..Len(s) : CharAt(s, i) = c}
        n == Cardinality(cuts) + 1
        from(k) == IF k = 1 THEN 1 ELSE Kth(cuts, k - 1) + 1
        to(k) == IF k = n THEN Len(s) ELSE Kth(cuts, k) - 1
    IN  [k \in 1..n |-> SubSeq(s, from(k), to(k))]

\* the parameter names of a query string, in the order they appear
NamesIn(qs) ==
    LET parts == Split(qs, "&") IN
    [i \in 1..Len(parts) |-> Split(parts[i], "=")[1]]

\* number of identifiers given (item_id as a tuple)
IdCount == Len(args.item_id[2])

WellShaped == IsTuple(args.item_id) /\ IsTuple(args.response_group)

\* the call ended by raising an exception of the class
Raised(class) == pc = "done" /\ outcome[1] = "raise" /\ outcome[2] = class

\* the call ended by returning a list of AmazonItem objects
ReturnedItems ==
    /\ pc = "done"
    /\ outcome[1] = "return"
    /\ IsList(outcome[2])
    /\ \A i \in 1..Len(outcome[2][2]) : outcome[2][2][i][1] = "obj"

\* the nodes of the response at the fixed paths
RequestNode ==
    Subscript(Subscript(Subscript(response, "ItemLookupResponse"), "Items"), "Request")

ValidFlag == Subscript(RequestNode, "IsValid")

ErrorNode == Subscript(Subscript(RequestNode, "Errors"), "Error")

ItemNode ==
    Subscript(Subscript(Subscript(response, "ItemLookupResponse"), "Items"), "Item")

\* a response was received and parsed, and the call is over
Answered == pc = "done" /\ sent /\ response # PyNone

(***************************************************************************)
(* C1: with well-shaped arguments, 1..10 identifiers pass the setup checks *)
(* and 0 or 11 identifiers end the call by raising APICallError.           *)
(* The code lets 0 identifiers through and returns the error for 11.       *)
(***************************************************************************)
C1_IdCountDecidesSetup ==
    (pc \notin {"idle", "validate"} /\ WellShaped) =>
        IF IdCount \in 1..MaxLookupItems
        THEN ~Raised("APICallError")
        ELSE Raised("APICallError")

(***************************************************************************)
(* C2: a call with item_id or response_group not a tuple, or with more     *)
(* than 10 identifiers, ends in APICallError raised to the caller, with no *)
(* quote_plus and no GET executed in it.                                   *)
(***************************************************************************)
C2_SetupErrorBeforeAnyWork ==
    (pc = "done" /\ (~WellShaped \/ IdCount > MaxLookupItems)) =>
        /\ Raised("APICallError")
        /\ ~encoded
        /\ ~sent

\* the part of C2 that the code keeps: a call the setup checks end has
\* neither encoded nor sent anything
SetupEndsCallBeforeAnyWork ==
    (pc = "done" /\ (~WellShaped \/ IdCount > MaxLookupItems)) =>
        ~encoded /\ ~sent /\ query_str = "" /\ request_url = ""

(***************************************************************************)
(* C3: MerchantId is in the canonical query iff merchant_id is exactly     *)
(* 'Amazon', and then as MerchantId=Amazon; otherwise the name does not    *)
(* appear at all.                                                          *)
(***************************************************************************)
C3_MerchantIdIffAmazon ==
    (pc = "sign") =>
        LET parts == Split(query_str, "&")
            present == \E i \in 1..Len(parts) : Split(parts[i], "=")[1] = "MerchantId"
        IN  /\ present <=> (args.merchant_id = "Amazon")
            /\ ("MerchantId" \in DOMAIN query.val) <=> (args.merchant_id = "Amazon")
            /\ present =>
                 /\ \E i \in 1..Len(parts) : parts[i] = "MerchantId=Amazon"
                 /\ query.val["MerchantId"] = "Amazon"
            /\ ~present => ~Contains(query_str, "MerchantId")

C3_Witness ==
    /\ pc = "sign"
    /\ args.merchant_id = "Amazon"
    /\ Contains(query_str, "&MerchantId=Amazon&")

(***************************************************************************)
(* C4: the names in the canonical query string are in strictly ascending   *)
(* code-point order (capitals first, none twice), each followed by '=' and *)
(* its encoded value, the pairs joined by '&'; sorting the names again     *)
(* changes nothing.                                                        *)
(***************************************************************************)
C4_NamesStrictlyAscending ==
    (pc = "sign") =>
        LET parts == Split(query_str, "&")
            names == NamesIn(query_str)
        IN  /\ \A i \in 1..(Len(names) - 1) : StrLess(names[i], names[i + 1])
            /\ Len(names) = Len(query.keys)
            /\ {names[i] : i \in 1..Len(names)} = DOMAIN query.val
            /\ \A i \in 1..Len(parts) :
                 parts[i] = names[i] \o "=" \o query.val[names[i]]
            /\ names[1] = "AWSAccessKeyId" /\ names[2] = "AssociateTag"
            /\ sorted(names) = names

C4_Witness ==
    /\ pc = "sign"
    /\ Len(NamesIn(query_str)) = 12
    /\ IdCount = MaxLookupItems

(***************************************************************************)
(* C5: with the validity flag not false, an OrderedDict at the items path  *)
(* gives a list of one item, a list of N records gives N items in order,   *)
(* and any other node there ends the call in the unknown-shape error.      *)
(* The code has no class of that name: line 139 raises APIReturnError with *)
(* the message 'Unknown response type', and that is what is read here as   *)
(* the claim's UnknownResponseShapeError.                                  *)
(***************************************************************************)
C5_ItemsNormalizedByShape ==
    (Answered /\ ~IsRaise(ValidFlag) /\ ~PyEq(ValidFlag, PyStr("False"))
        /\ ~IsRaise(ItemNode)) =>
        IF IsOrderedDict(ItemNode)
        THEN /\ ReturnedItems
             /\ Len(outcome[2][2]) = 1
             /\ outcome[2][2][1][2]._response = ItemNode
        ELSE IF IsList(ItemNode)
        THEN /\ ReturnedItems
             /\ Len(outcome[2][2]) = Len(ItemNode[2])
             /\ \A i \in 1..Len(ItemNode[2]) :
                  outcome[2][2][i][2]._response = ItemNode[2][i]
        ELSE Raised("APIReturnError") /\ outcome[3] = "Unknown response type"

(***************************************************************************)
(* C6: with the validity flag false the call raises APIReturnError and     *)
(* returns nothing; for one error record the message holds its code and    *)
(* its message, for several it holds the JSON text of each record's code   *)
(* and message.                                                            *)
(***************************************************************************)
C6_InvalidRaisesAPIReturnError ==
    (Answered /\ ~IsRaise(ValidFlag) /\ PyEq(ValidFlag, PyStr("False"))) =>
        /\ Raised("APIReturnError")
        /\ IsDict(ErrorNode) =>
             /\ Contains(outcome[3], ErrorNode[3]["Code"][2])
             /\ Contains(outcome[3], ErrorNode[3]["Message"][2])
        /\ IsList(ErrorNode) =>
             \A i \in 1..Len(ErrorNode[2]) :
                LET e == ErrorNode[2][i][3] IN
                /\ Contains(outcome[3],
                            "\"Code\": \"" \o JsonEscape(e["Code"][2]) \o "\"")
                /\ Contains(outcome[3],
                            "\"Message\": \"" \o JsonEscape(e["Message"][2]) \o "\"")

C6_Witness ==
    /\ Answered
    /\ PyEq(ValidFlag, PyStr("False"))
    /\ IsDict(ErrorNode)
    /\ ErrorNode[3]["Code"] = PyStr("AWS.InvalidParameterValue")
    /\ outcome = Raise("APIReturnError",
                       "API Lookup Error AWS.InvalidParameterValue - foo")

(***************************************************************************)
(* C10: a call that is over either returned the whole list of AmazonItem   *)
(* objects, one per record of the response and 1..10 of them, or raised;   *)
(* it returned nothing else, and no error object as a value.               *)
(***************************************************************************)
C10_ItemsOrRaise ==
    (pc = "done") =>
        \/ outcome[1] = "raise"
        \/ /\ ReturnedItems
           /\ Len(outcome[2][2]) \in 1..MaxLookupItems
           /\ Len(outcome[2][2]) =
                (IF IsList(ItemNode) THEN Len(ItemNode[2]) ELSE 1)

(***************************************************************************)
(* Reading the item model's state.                                         *)
(***************************************************************************)
\* the constructor has run: it built the item or raised
Constructed == item # PyNone

Built == item[1] = "obj"

\* the value at rec[k1][k2]['Amount'], or rec[k1][k2][k3]['Amount'], absent
\* nodes read as {}
Amount2(k1, k2) ==
    Get(Get(Get(rec, k1, EmptyDict), k2, EmptyDict), "Amount", PyNone)

Amount4(k1, k2, k3, k4) ==
    Get(Get(Get(Get(Get(rec, k1, EmptyDict), k2, EmptyDict), k3, EmptyDict),
            k4, EmptyDict), "Amount", PyNone)

\* the integer an Amount stands for when it is a str, else None
AsInteger(amount) ==
    IF IsStr(amount) THEN PyInt(DigitsValue(amount[2], 0)) ELSE PyNone

\* the node under ItemLinks/ItemLink
LinkData == Get(Get(rec, "ItemLinks", EmptyDict), "ItemLink", EmptyDict)

\* the URL of the first record of a list whose Description is the target
FirstURL(target) ==
    LET xs == LinkData[2]
        hits == {i \in 1..Len(xs) : xs[i][3]["Description"] = PyStr(target)}
    IN  IF hits = {} THEN PyNone
        ELSE xs[CHOOSE i \in hits : \A j \in hits : i <= j][3]["URL"]

Substructures == {"ItemAttributes", "OfferSummary", "Offers", "ItemLinks", "SmallImage"}

(***************************************************************************)
(* C7: list_price, buy_box_price and lowest_new_price are each the integer *)
(* of their Amount when it is a str and None otherwise; no other price is  *)
(* made an integer.  The code stores list_price as the str it read.        *)
(***************************************************************************)
C7_ThreePricesAreIntegers ==
    Built =>
        /\ item[2].item_attributes[2].list_price
             = AsInteger(Amount2("ItemAttributes", "ListPrice"))
        /\ item[2].offers[2].buy_box_price
             = AsInteger(Amount4("Offers", "Offer", "OfferListing", "Price"))
        /\ item[2].offer_summary[2].lowest_new_price
             = AsInteger(Amount2("OfferSummary", "LowestNewPrice"))
        /\ item[2].offer_summary[2].lowest_used_price[1] # "int"

\* the part of C7 that the code keeps
TwoPricesAreIntegers ==
    Built =>
        /\ item[2].offers[2].buy_box_price
             = AsInteger(Amount4("Offers", "Offer", "OfferListing", "Price"))
        /\ item[2].offer_summary[2].lowest_new_price
             = AsInteger(Amount2("OfferSummary", "LowestNewPrice"))
        /\ item[2].offer_summary[2].lowest_used_price
             = Amount2("OfferSummary", "LowestUsedPrice")
        /\ item[2].item_attributes[2].list_price
             = Amount2("ItemAttributes", "ListPrice")

(***************************************************************************)
(* C8: description_url and all_offers_url are the URL of the first record, *)
(* in order, described 'Technical Details' and 'All Offers'; with no such  *)
(* record, or with one record or none under ItemLinks, they are None and   *)
(* building the item raises nothing.  Stated for records whose other       *)
(* substructures are absent, so that only Links can raise.                 *)
(***************************************************************************)
C8_FirstMatchingLinkOrNone ==
    (Constructed
        /\ \A k \in {"ItemAttributes", "OfferSummary", "Offers"} : k \notin DOMAIN rec[3]
        /\ (IsList(LinkData) \/ IsDict(LinkData))) =>
        /\ Built
        /\ item[2].item_links[2].description_url
             = (IF IsList(LinkData) THEN FirstURL("Technical Details") ELSE PyNone)
        /\ item[2].item_links[2].all_offers_url
             = (IF IsList(LinkData) THEN FirstURL("All Offers") ELSE PyNone)

\* the part of C8 that the code keeps: a list of records, or no ItemLink
LinkListOrNoLink ==
    (Constructed
        /\ \A k \in {"ItemAttributes", "OfferSummary", "Offers"} : k \notin DOMAIN rec[3]
        /\ (IsList(LinkData) \/ LinkData = EmptyDict)) =>
        /\ Built
        /\ item[2].item_links[2].description_url
             = (IF IsList(LinkData) THEN FirstURL("Technical Details") ELSE PyNone)
        /\ item[2].item_links[2].all_offers_url
             = (IF IsList(LinkData) THEN FirstURL("All Offers") ELSE PyNone)

(***************************************************************************)
(* C9: for a record whose substructures are each absent or empty, building *)
(* the item and reading a property never raises, and every field under a   *)
(* missing node is None, or False for the two shipping flags.              *)
(***************************************************************************)
C9_MissingNodesNeverRaise ==
    (Constructed
        /\ \A k \in Substructures : k \notin DOMAIN rec[3] \/ rec[3][k] = PyNone) =>
        /\ Built
        /\ accessor # "" =>
             IF accessor = "asin" THEN result = rec[3]["ASIN"]
             ELSE IF accessor \in {"super_saver_shipping", "prime_shipping"}
             THEN result = PyBool(FALSE)
             ELSE result = PyNone

\* the part of C9 that the code keeps: substructures that are absent
AbsentNodesNeverRaise ==
    (Constructed /\ \A k \in Substructures : k \notin DOMAIN rec[3]) =>
        /\ Built
        /\ accessor # "" =>
             IF accessor = "asin" THEN result = rec[3]["ASIN"]
             ELSE IF accessor \in {"super_saver_shipping", "prime_shipping"}
             THEN result = PyBool(FALSE)
             ELSE result = PyNone

=============================================================================
